---- MODULE Spec2Model ----
(***************************************************************************)
(* The playback synchronisation of the room video player: the React        *)
(* component VideoPlayer of src/src/components/room/VideoPlayer.tsx and    *)
(* its near-duplicate in src/src/components/room/UserPlaylists.tsx          *)
(* (lines 350-885), which differ in the seek threshold and the interval of *)
(* the periodic publish.                                                    *)
(*                                                                         *)
(* One participant is modelled together with its environment: the stored   *)
(* room row, the channel that delivers video_state changes, the playlist   *)
(* table and the YouTube player widget.                                    *)
(*                                                                         *)
(* A handler is a function created by one render of the component; it reads *)
(* the state values of THAT render.  The operators that translate handlers *)
(* therefore take the render's values as the parameter env.  Handlers that *)
(* React or the player looks up at event time (onClick, onStateChange,     *)
(* onReady) get the latest render; the callbacks registered once (the      *)
(* channel subscription of the mount effect, the setInterval callback, the *)
(* pending fetchInitialState) keep the render they were created in.        *)
(*                                                                         *)
(* Elapsed times are in tenths of a second, clock times in milliseconds.   *)
(***************************************************************************)
EXTENDS Integers, Sequences, FiniteSets, TLC

\* ------------------------------------------------------------------ bounds
MaxPlaylist == 3
MaxTicks == 1
MaxInFlight == 1
MaxNotices == 1
MaxInputs == 2
LocalElapsed == 100

\* ------------------------------------------------------- program constants
SuppressWindowMs == 1000
ReadyDelayMs == 500
ReadyCompensation == 10
SeekThresholdVideoPlayer == 30
SeekThresholdUserPlaylists == 20
NoPosition == -1

\* --------------------------------------------------------------- value sets
Videos == {"A", "B", "C"}
NullId == "null"
Undefined == "undefined"
StartMs == 2 * SuppressWindowMs
Components == {"VideoPlayer", "UserPlaylists"}
Playlists(ids, n) == UNION {[1..k -> ids] : k \in 0..n}

\* A value of type T | null is the empty sequence or a one-element sequence.
Null == <<>>
Some(x) == <<x>>
The(o) == o[1]

\* The video_state blobs over given ids, playhead positions and timestamps.
VideoStates(ids, times, stamps) ==
    [videoId : ids, isPlaying : BOOLEAN, currentTime : times, timestamp : stamps]

\* JavaScript truthiness of a video id (null and undefined are falsy).
Truthy(v) == v \notin {NullId, Undefined}

\* videoState?.videoId
VideoIdOf(vs) == IF vs = Null THEN Undefined ELSE The(vs).videoId

\* videoState?.isPlaying, as a condition
IsPlayingOf(vs) == IF vs = Null THEN FALSE ELSE The(vs).isPlaying

\* A membership test that only asks whether there is a playlist.
isInPlaylistNonEmpty(videoId, pl) == Len(pl) > 0

\* playlist.some(item => item.video_id === videoId)
isInPlaylist(videoId, pl) == \E i \in 1..Len(pl) : pl[i] = videoId

\* playlist.findIndex(item => item.video_id === videoId), 0-based, -1 if none
findIndex(pl, videoId) ==
    IF \E i \in 1..Len(pl) : pl[i] = videoId
    THEN (CHOOSE i \in 1..Len(pl) :
             pl[i] = videoId /\ \A j \in 1..(i - 1) : pl[j] # videoId) - 1
    ELSE -1

\* A position counted from one.
updateCurrentVideoPositionFromOne(vs, pl) ==
    IF ~Truthy(VideoIdOf(vs)) \/ Len(pl) = 0
    THEN NoPosition
    ELSE IF findIndex(pl, VideoIdOf(vs)) = NoPosition
    THEN NoPosition
    ELSE findIndex(pl, VideoIdOf(vs)) + 1

\* The value updateCurrentVideoPosition leaves in currentVideoPosition once the
\* effect on [videoState?.videoId, playlist] has run after a render.
updateCurrentVideoPosition(vs, pl) ==
    IF ~Truthy(VideoIdOf(vs)) \/ Len(pl) = 0
    THEN NoPosition
    ELSE findIndex(pl, VideoIdOf(vs))

\* Math.abs(playerTime - newState.currentTime)
Abs(x) == IF x < 0 THEN -x ELSE x

\* { ...videoState, ...updateData }
Merge(s, updateData) ==
    [k \in DOMAIN s |-> IF k \in DOMAIN updateData THEN updateData[k] ELSE s[k]]

VARIABLES
    component,
    now,
    store,
    inflight,
    videoState,
    localIsPlaying,
    isLoading,
    isBuffering,
    playlist,
    currentVideoPosition,
    lastSyncTimeRef,
    playerRef,
    syncIntervalRef,
    subscription,
    initialFetch,
    readyTimeout,
    intervals,
    player,
    notices,
    inputs,
    ev,
    peers,
    panel

vars ==
    <<component, now, store, inflight, videoState, localIsPlaying, isLoading,
      isBuffering, playlist, currentVideoPosition, lastSyncTimeRef, playerRef,
      syncIntervalRef, subscription, initialFetch, readyTimeout, intervals,
      player, notices, inputs, ev, peers, panel>>

\* The values a render of the component closes over.
Render(vs, pl, lip, pos) ==
    [videoState |-> vs, playlist |-> pl, localIsPlaying |-> lip,
     currentVideoPosition |-> pos]

\* The latest render: what onClick, onReady and onStateChange handlers read.
Latest == Render(videoState, playlist, localIsPlaying, currentVideoPosition)

\* The first render: the useState initial values.
FirstRender == Render(Null, <<>>, FALSE, NoPosition)

\* What the handleVideoStateChange of a render reads of that render:
\* playlist, videoState?.videoId and localIsPlaying.
Closure(r) ==
    [playlist |-> r.playlist, videoId |-> VideoIdOf(r.videoState),
     localIsPlaying |-> r.localIsPlaying]

\* What a handler leaves behind for the properties to read: which handler
\* ran last, on what input (the video selected or chosen, the timestamp of the
\* delivered state, the position getCurrentTime() returned, whether the
\* delivered state is the one the step before applied, whether the
\* notification handled was raised by a delivery applied in the step before),
\* and what it emitted (the branch taken, toasts, a write, player calls,
\* whether a call made the player raise a notification).
Event(op) ==
    [op |-> op, video |-> Undefined, stamp |-> Null, local |-> Null,
     again |-> FALSE, outcome |-> "none", toast |-> {}, published |-> FALSE,
     cmd |-> "none", seek |-> Null, raised |-> FALSE, echo |-> FALSE]

\* ------------------------------------------------------------------------
\* The effects a handler accumulates.  Fx is the state before the handler;
\* each statement of the handler overrides a field; Commit installs the
\* result and lets React render.
\* ------------------------------------------------------------------------
Fx(op) ==
    [videoState |-> videoState, localIsPlaying |-> localIsPlaying,
     isLoading |-> isLoading, isBuffering |-> isBuffering,
     lastSyncTimeRef |-> lastSyncTimeRef, playerRef |-> playerRef,
     syncIntervalRef |-> syncIntervalRef, intervals |-> intervals,
     readyTimeout |-> readyTimeout, player |-> player, notices |-> notices,
     inflight |-> inflight, ev |-> Event(op)]

\* One threshold for both components.
SeekThresholdShared == SeekThresholdVideoPlayer

\* The threshold of the drift check: `timeDiff > 3` in VideoPlayer.tsx,
\* `timeDiff > 2` in UserPlaylists.tsx (tenths of a second here).
SeekThreshold ==
    IF component = "VideoPlayer"
    THEN SeekThresholdVideoPlayer
    ELSE SeekThresholdUserPlaylists

\* updateData.videoId && ...
HasVideoId(updateData) ==
    "videoId" \in DOMAIN updateData /\ Truthy(updateData.videoId)

\* ---- the player control surface (calls on playerRef.current) -------------
\* playerRef is "none" (null), "current" (the mounted widget) or "stale" (a
\* widget that has since been unmounted: the ref is never reset).  A call that
\* returns on a stale widget changes nothing.
playVideo(fx) ==
    IF fx.playerRef # "current"
    THEN [fx EXCEPT !.ev.cmd = "play"]
    ELSE [fx EXCEPT !.ev.cmd = "play",
                    !.player = Some([The(@) EXCEPT !.status = "playing"]),
                    !.ev.raised = @ \/ The(fx.player).status # "playing",
                    !.notices = IF The(fx.player).status = "playing"
                                THEN @ ELSE Append(@, "playing")]

pauseVideo(fx) ==
    IF fx.playerRef # "current"
    THEN [fx EXCEPT !.ev.cmd = "pause"]
    ELSE [fx EXCEPT !.ev.cmd = "pause",
                    !.player = Some([The(@) EXCEPT !.status = "paused"]),
                    !.ev.raised = @ \/ The(fx.player).status # "paused",
                    !.notices = IF The(fx.player).status = "paused"
                                THEN @ ELSE Append(@, "paused")]

seekTo(t, fx) ==
    IF fx.playerRef # "current"
    THEN [fx EXCEPT !.ev.seek = Some(t)]
    ELSE [fx EXCEPT !.ev.seek = Some(t),
                    !.player = Some([The(@) EXCEPT !.time = t])]

\* ---- updateRoomVideoState (VideoPlayer.tsx 212-250) ----------------------
updateRoomVideoState(env, updateData, fx) ==
    IF env.videoState = Null
    THEN fx
    ELSE IF HasVideoId(updateData) /\ Len(env.playlist) > 0
            /\ ~isInPlaylist(updateData.videoId, env.playlist)
    THEN [fx EXCEPT !.ev.toast = @ \cup {"cant_play"}]
    ELSE LET updatedState ==
                 [Merge(The(env.videoState), updateData) EXCEPT !.timestamp = now]
         IN  [fx EXCEPT !.lastSyncTimeRef = now,
                        !.videoState = Some(updatedState),
                        !.inflight = Append(@, updatedState),
                        !.ev.published = TRUE]

\* A selection that changes the video and the position but not the play flag.
playVideoFromPlaylistKeepFlag(env, videoId, fx) ==
    IF ~isInPlaylist(videoId, env.playlist) /\ Len(env.playlist) > 0
    THEN [fx EXCEPT !.ev.toast = @ \cup {"cant_play"}]
    ELSE updateRoomVideoState(env, [videoId |-> videoId, currentTime |-> 0], fx)

\* ---- playVideoFromPlaylist (VideoPlayer.tsx 404-423) ---------------------
playVideoFromPlaylist(env, videoId, fx) ==
    IF ~isInPlaylist(videoId, env.playlist) /\ Len(env.playlist) > 0
    THEN [fx EXCEPT !.ev.toast = @ \cup {"cant_play"}]
    ELSE updateRoomVideoState(
             env, [videoId |-> videoId, isPlaying |-> TRUE, currentTime |-> 0], fx)

\* A successor that stops at the last entry instead of wrapping.
nextVideoClamped(env) ==
    IF Len(env.playlist) = 0
    THEN Undefined
    ELSE IF env.currentVideoPosition = NoPosition
    THEN env.playlist[1]
    ELSE IF env.currentVideoPosition + 1 >= Len(env.playlist)
    THEN env.playlist[Len(env.playlist)]
    ELSE env.playlist[env.currentVideoPosition + 2]

\* ---- playNextVideo (VideoPlayer.tsx 379-402) -----------------------------
\* The entry playNextVideo passes to playVideoFromPlaylist, Undefined if none.
nextVideo(env) ==
    IF Len(env.playlist) = 0
    THEN Undefined
    ELSE IF env.currentVideoPosition = NoPosition
    THEN env.playlist[1]
    ELSE env.playlist[((env.currentVideoPosition + 1) % Len(env.playlist)) + 1]

\* An advance that gives up when the current video has no position.
playNextVideoNoRestart(env, fx) ==
    IF Len(env.playlist) = 0 \/ env.currentVideoPosition = NoPosition
    THEN fx
    ELSE LET f == playVideoFromPlaylist(env, nextVideo(env), fx)
         IN  [f EXCEPT !.ev.toast = @ \cup {"next"}, !.ev.video = nextVideo(env)]

\* An advance that replays the current video when there is no playlist.
playNextVideoReplay(env, fx) ==
    IF Len(env.playlist) = 0
    THEN updateRoomVideoState(env, [isPlaying |-> TRUE, currentTime |-> 0], fx)
    ELSE IF env.currentVideoPosition = NoPosition
    THEN LET f == playVideoFromPlaylist(env, env.playlist[1], fx)
         IN  [f EXCEPT !.ev.toast = @ \cup {"restarted"},
                       !.ev.video = env.playlist[1]]
    ELSE LET f == playVideoFromPlaylist(env, nextVideo(env), fx)
         IN  [f EXCEPT !.ev.toast = @ \cup {"next"}, !.ev.video = nextVideo(env)]

playNextVideo(env, fx) ==
    IF Len(env.playlist) = 0 \/ env.currentVideoPosition = NoPosition
    THEN IF Len(env.playlist) > 0
         THEN LET f == playVideoFromPlaylist(env, env.playlist[1], fx)
              IN  [f EXCEPT !.ev.toast = @ \cup {"restarted"},
                            !.ev.video = env.playlist[1]]
         ELSE fx
    ELSE LET f == playVideoFromPlaylist(env, nextVideo(env), fx)
         IN  [f EXCEPT !.ev.toast = @ \cup {"next"}, !.ev.video = nextVideo(env)]

\* A window twice as long, and a window that includes its end.
justSentLong(fx) == now - fx.lastSyncTimeRef < 2 * SuppressWindowMs

justSentInclusive(fx) == now - fx.lastSyncTimeRef <= SuppressWindowMs

\* A drift check that seeks at the threshold itself.
seekNeededInclusive(playerTime, newState) ==
    Abs(playerTime - newState.currentTime) >= SeekThreshold

\* A window that opens after the instant of the write.
justSentAfter(fx) ==
    /\ now > fx.lastSyncTimeRef
    /\ now - fx.lastSyncTimeRef < SuppressWindowMs

\* ---- handleVideoStateChange (VideoPlayer.tsx 166-210) --------------------
\* Date.now() - lastSyncTimeRef.current < 1000
justSent(fx) == now - fx.lastSyncTimeRef < SuppressWindowMs

\* timeDiff > 3 (> 2 in UserPlaylists.tsx), with timeDiff the distance between
\* the player's position and newState.currentTime
seekNeeded(playerTime, newState) ==
    Abs(playerTime - newState.currentTime) > SeekThreshold

\* playerTime is what getCurrentTime() returns; throws says that the first
\* call on a stale widget throws, which ends the handler there.
handleVideoStateChange(env, newState, playerTime, throws, fx) ==
    IF justSent(fx)
    THEN [fx EXCEPT !.ev.outcome = "suppressed"]
    ELSE IF Truthy(newState.videoId)
            /\ ~isInPlaylist(newState.videoId, env.playlist)
            /\ Len(env.playlist) > 0
    THEN [fx EXCEPT !.ev.outcome = "ignored"]
    ELSE LET f1 == [fx EXCEPT !.videoState = Some(newState)]
             f2 == IF newState.isPlaying # env.localIsPlaying
                   THEN [(IF newState.isPlaying THEN playVideo(f1) ELSE pauseVideo(f1))
                            EXCEPT !.localIsPlaying = newState.isPlaying]
                   ELSE f1
             f3 == IF seekNeeded(playerTime, newState)
                   THEN seekTo(newState.currentTime, f2)
                   ELSE f2
         IN  IF fx.playerRef = "none"
             THEN [f1 EXCEPT !.ev.outcome = "stored"]
             ELSE IF newState.videoId # env.videoId
             THEN [f1 EXCEPT !.localIsPlaying = newState.isPlaying,
                             !.ev.outcome = "switched"]
             ELSE IF throws
             THEN [f1 EXCEPT !.ev.outcome = "threw"]
             ELSE [f3 EXCEPT !.ev.outcome = "reconciled",
                             !.ev.local = Some(playerTime)]

\* ---- the sync interval (VideoPlayer.tsx 302-313, 329-333, 343-346) -------
\* intervals holds the running setInterval timers, each with the videoState
\* of the render whose PLAYING handler created it; syncIntervalRef holds the
\* id the component recorded, Null for null.
clearInterval(ref, set) == {i \in set : Some(i.id) # ref}

newIntervalId(fx) ==
    CHOOSE n \in 1..(Cardinality(fx.intervals) + 2) :
        /\ \A i \in fx.intervals : i.id # n
        /\ Some(n) # fx.syncIntervalRef
        /\ \A m \in 1..(n - 1) :
               (\E i \in fx.intervals : i.id = m) \/ Some(m) = fx.syncIntervalRef

\* A restart that sets the new timer without clearing the recorded one.
restartIntervalNoClear(env, fx) ==
    LET id == newIntervalId(fx)
    IN  [fx EXCEPT !.intervals = @ \cup {[id |-> id, videoState |-> env.videoState]},
                   !.syncIntervalRef = Some(id)]

restartInterval(env, fx) ==
    LET cleared == [fx EXCEPT !.intervals = clearInterval(fx.syncIntervalRef, @)]
        id == newIntervalId(cleared)
    IN  [cleared EXCEPT !.intervals = @ \cup {[id |-> id, videoState |-> env.videoState]},
                        !.syncIntervalRef = Some(id)]

stopInterval(fx) ==
    [fx EXCEPT !.intervals = clearInterval(fx.syncIntervalRef, @),
               !.syncIntervalRef = Null]

\* The callback of setInterval, with the videoState its render closed over.
intervalCallback(capturedVideoState, playerTime, fx) ==
    IF fx.playerRef # "none" /\ capturedVideoState # Null
    THEN updateRoomVideoState(
             Render(capturedVideoState, <<>>, FALSE, NoPosition),
             [currentTime |-> playerTime], fx)
    ELSE fx

\* A handler that writes the position when the player buffers.
onPlayerStateChangeBufferingSync(env, status, playerTime, fx) ==
    CASE status = "playing" ->
           LET f1 == [fx EXCEPT !.localIsPlaying = TRUE, !.isBuffering = FALSE]
               f2 == IF ~IsPlayingOf(env.videoState)
                     THEN updateRoomVideoState(
                              env, [isPlaying |-> TRUE, currentTime |-> playerTime], f1)
                     ELSE f1
           IN  restartInterval(env, f2)
      [] status = "paused" ->
           LET f1 == [fx EXCEPT !.localIsPlaying = FALSE, !.isBuffering = FALSE]
               f2 == IF IsPlayingOf(env.videoState)
                     THEN updateRoomVideoState(
                              env, [isPlaying |-> FALSE, currentTime |-> playerTime], f1)
                     ELSE f1
           IN  stopInterval(f2)
      [] status = "buffering" ->
           updateRoomVideoState(env, [currentTime |-> playerTime],
                                [fx EXCEPT !.isBuffering = TRUE])
      [] status = "ended" ->
           playNextVideo(env, stopInterval([fx EXCEPT !.localIsPlaying = FALSE]))
      [] OTHER -> fx

\* A handler that writes on every PLAYING and PAUSED notification.
onPlayerStateChangeAlways(env, status, playerTime, fx) ==
    CASE status = "playing" ->
           restartInterval(env,
               updateRoomVideoState(
                   env, [isPlaying |-> TRUE, currentTime |-> playerTime],
                   [fx EXCEPT !.localIsPlaying = TRUE, !.isBuffering = FALSE]))
      [] status = "paused" ->
           stopInterval(
               updateRoomVideoState(
                   env, [isPlaying |-> FALSE, currentTime |-> playerTime],
                   [fx EXCEPT !.localIsPlaying = FALSE, !.isBuffering = FALSE]))
      [] status = "buffering" -> [fx EXCEPT !.isBuffering = TRUE]
      [] status = "ended" ->
           playNextVideo(env, stopInterval([fx EXCEPT !.localIsPlaying = FALSE]))
      [] OTHER -> fx

\* ---- onPlayerStateChange (VideoPlayer.tsx 287-355) -----------------------
\* playerTime is `playerRef.current?.getCurrentTime() || 0`.
onPlayerStateChange(env, status, playerTime, fx) ==
    CASE status = "playing" ->
           LET f1 == [fx EXCEPT !.localIsPlaying = TRUE, !.isBuffering = FALSE]
               f2 == IF ~IsPlayingOf(env.videoState)
                     THEN updateRoomVideoState(
                              env, [isPlaying |-> TRUE, currentTime |-> playerTime], f1)
                     ELSE f1
           IN  restartInterval(env, f2)
      [] status = "paused" ->
           LET f1 == [fx EXCEPT !.localIsPlaying = FALSE, !.isBuffering = FALSE]
               f2 == IF IsPlayingOf(env.videoState)
                     THEN updateRoomVideoState(
                              env, [isPlaying |-> FALSE, currentTime |-> playerTime], f1)
                     ELSE f1
           IN  stopInterval(f2)
      [] status = "buffering" -> [fx EXCEPT !.isBuffering = TRUE]
      [] status = "ended" ->
           playNextVideo(env, stopInterval([fx EXCEPT !.localIsPlaying = FALSE]))
      [] OTHER -> fx

\* ---- togglePlayPause (VideoPlayer.tsx 357-365) ---------------------------
togglePlayPause(env, fx) ==
    IF fx.playerRef = "none"
    THEN fx
    ELSE IF env.localIsPlaying THEN pauseVideo(fx) ELSE playVideo(fx)

\* ---- onPlayerReady (VideoPlayer.tsx 252-285) -----------------------------
\* readyTimeout holds the pending setTimeout callback: the time it is due and
\* the videoState of the render onPlayerReady ran in.
onPlayerReady(env, fx) ==
    LET f1 == [fx EXCEPT !.playerRef = "current", !.isLoading = FALSE,
                         !.player = Some([The(@) EXCEPT !.ready = TRUE])]
    IN  IF env.videoState # Null
           /\ (isInPlaylist(The(env.videoState).videoId, env.playlist)
               \/ Len(env.playlist) = 0)
        THEN [f1 EXCEPT !.readyTimeout =
                  Some([due |-> now + ReadyDelayMs,
                        videoState |-> The(env.videoState)])]
        ELSE f1

\* A callback that seeks to the stored playhead with nothing added.
readyCallbackExact(captured, fx) ==
    IF fx.playerRef = "none"
    THEN fx
    ELSE LET f1 == seekTo(captured.currentTime, fx)
         IN  IF captured.isPlaying THEN playVideo(f1) ELSE f1

readyCallback(captured, fx) ==
    IF fx.playerRef = "none"
    THEN fx
    ELSE LET adjustedTime ==
                 IF captured.isPlaying
                 THEN captured.currentTime + ReadyCompensation
                 ELSE captured.currentTime
             f1 == seekTo(adjustedTime, fx)
         IN  IF captured.isPlaying THEN playVideo(f1) ELSE f1

\* ---- fetchInitialState (VideoPlayer.tsx 123-164) -------------------------
\* data is the video_state of the room row (Null when the row has none).
fetchInitialState(env, data, fx) ==
    LET f0 == [fx EXCEPT !.isLoading = FALSE]
        accept == [f0 EXCEPT !.videoState = data,
                             !.localIsPlaying = The(data).isPlaying]
    IN  IF data = Null
        THEN f0
        ELSE IF Truthy(The(data).videoId)
        THEN IF isInPlaylist(The(data).videoId, env.playlist)
                \/ Len(env.playlist) = 0
             THEN accept
             ELSE IF Len(env.playlist) > 0
             THEN updateRoomVideoState(
                      env,
                      [videoId |-> env.playlist[1], isPlaying |-> TRUE,
                       currentTime |-> 0],
                      f0)
             ELSE f0
        ELSE accept

\* ---- a render after a handler (VideoPlayer.tsx 119-121, 453-477) ---------
\* The YouTube widget is on screen when the component is not loading and a
\* video is selected; a changed videoId prop makes the widget load that
\* video; the effect on [videoState?.videoId, playlist] recomputes
\* currentVideoPosition.
Shown(fx) == ~fx.isLoading /\ Truthy(VideoIdOf(fx.videoState))

widget(fx) ==
    IF ~Shown(fx)
    THEN Null
    ELSE IF fx.player = Null
    THEN Some([videoId |-> VideoIdOf(fx.videoState), status |-> "unstarted",
               time |-> 0, ready |-> FALSE])
    ELSE IF The(fx.player).videoId # VideoIdOf(fx.videoState)
    THEN Some([The(fx.player) EXCEPT !.videoId = VideoIdOf(fx.videoState),
                                     !.status = "cued", !.time = 0])
    ELSE fx.player

\* The component is mounted while its effect holds the subscription.  After
\* the unmount the state setters do nothing and nothing is rendered; the refs
\* and the timers and promises the handlers created live on.
Mounted == subscription # Null

Commit(fx, pl) ==
    /\ Len(fx.inflight) <= MaxInFlight
    /\ Len(fx.notices) <= MaxNotices
    /\ videoState' = IF Mounted THEN fx.videoState ELSE videoState
    /\ localIsPlaying' = IF Mounted THEN fx.localIsPlaying ELSE localIsPlaying
    /\ isLoading' = IF Mounted THEN fx.isLoading ELSE isLoading
    /\ isBuffering' = IF Mounted THEN fx.isBuffering ELSE isBuffering
    /\ lastSyncTimeRef' = fx.lastSyncTimeRef
    /\ syncIntervalRef' = fx.syncIntervalRef
    /\ intervals' = fx.intervals
    /\ readyTimeout' = fx.readyTimeout
    /\ inflight' = fx.inflight
    /\ ev' = fx.ev
    /\ playlist' = pl
    /\ currentVideoPosition' = IF Mounted
                               THEN updateCurrentVideoPosition(fx.videoState, pl)
                               ELSE currentVideoPosition
    /\ player' = IF Mounted THEN widget(fx) ELSE Null
    /\ playerRef' = IF (~Mounted \/ ~Shown(fx)) /\ fx.playerRef = "current"
                    THEN "stale" ELSE fx.playerRef
    /\ notices' = IF Mounted /\ Shown(fx) THEN fx.notices ELSE <<>>
    /\ component' = component

\* ------------------------------------------------------------------------
\* Actions.  D is the scope of a specification: the sets its inputs are
\* drawn from (components, stores, events, playlists, videos, times) and the
\* last clock tick.
\* ------------------------------------------------------------------------

\* An input is a step of the environment (a viewer's gesture, a delivery, a
\* change of the playlist table, the player's own progress); a reaction is a
\* step the component's earlier steps have scheduled.  A behaviour holds at
\* most D.inputs inputs.
Input(D) ==
    /\ inputs < D.inputs
    /\ inputs' = inputs + 1
    /\ UNCHANGED <<peers, panel>>

Reaction == inputs' = inputs /\ UNCHANGED <<peers, panel>>

\* What getCurrentTime() returns: the widget's position, or anything when the
\* ref points to a widget that no longer exists.
PlayerTimes(D) == IF playerRef = "current" THEN {The(player).time} ELSE D.times

\* Whether a call on playerRef.current may throw.
MayThrow == IF playerRef = "stale" THEN BOOLEAN ELSE {FALSE}

InitOf(D) ==
    /\ component \in D.components
    /\ now = StartMs
    /\ store \in D.stores
    /\ inflight = <<>>
    /\ videoState = Null
    /\ localIsPlaying = FALSE
    /\ isLoading = TRUE
    /\ isBuffering = FALSE
    /\ playlist = <<>>
    /\ currentVideoPosition = NoPosition
    /\ lastSyncTimeRef = 0
    /\ playerRef = "none"
    /\ syncIntervalRef = Null
    /\ subscription = Some(Closure(FirstRender))
    /\ initialFetch = Some(FirstRender)
    /\ readyTimeout = Null
    /\ intervals = {}
    /\ player = Null
    /\ notices = <<>>
    /\ inputs = 0
    /\ ev = Event("mount")
    /\ peers \in D.peers
    /\ panel \in D.panels

\* ---- time ----------------------------------------------------------------
Tick(D) ==
    /\ Reaction
    /\ now + D.tick <= StartMs + D.ticks * D.tick
    /\ now' = now + D.tick
    /\ ev' = Event("none")
    /\ UNCHANGED <<component, store, inflight, videoState, localIsPlaying,
                   isLoading, isBuffering, playlist, currentVideoPosition,
                   lastSyncTimeRef, playerRef, syncIntervalRef, subscription,
                   initialFetch, readyTimeout, intervals, player, notices>>

\* ---- completions of the mount effect's fetches (VideoPlayer.tsx 46-49) ---
FetchInitialStateDone ==
    /\ Reaction
    /\ initialFetch # Null
    /\ Commit(fetchInitialState(The(initialFetch), store, Fx("fetchInitialState")),
              playlist)
    /\ initialFetch' = Null
    /\ UNCHANGED <<now, store, subscription>>

FetchInitialStateFail ==
    /\ Reaction
    /\ initialFetch # Null
    /\ Commit([Fx("fetchInitialStateError") EXCEPT !.isLoading = FALSE], playlist)
    /\ initialFetch' = Null
    /\ UNCHANGED <<now, store, subscription>>

\* fetchRoomPlaylist (VideoPlayer.tsx 92-107): run by the mount effect and by
\* every playlist_items notification; data is the table's content then.
FetchRoomPlaylistDone(D) ==
    /\ Input(D)
    /\ subscription # Null
    /\ \E data \in D.playlists : Commit(Fx("fetchRoomPlaylist"), data)
    /\ UNCHANGED <<now, store, initialFetch, subscription>>

FetchRoomPlaylistFail(D) ==
    /\ Input(D)
    /\ subscription # Null
    /\ Commit(Fx("fetchRoomPlaylistError"), playlist)
    /\ UNCHANGED <<now, store, initialFetch, subscription>>

\* The step recorded in e was a delivery that handleVideoStateChange applied
\* (it got as far as setVideoState).
Applied(e) ==
    /\ e.op = "handleVideoStateChange"
    /\ e.outcome \in {"stored", "switched", "threw", "reconciled"}

\* ---- the video_rooms subscription (VideoPlayer.tsx 52-65) ----------------
\* The callback calls the handleVideoStateChange of the render the effect ran
\* in; the channel may deliver any state any writer stored.
RemoteUpdate(D) ==
    /\ Input(D)
    /\ subscription # Null
    /\ \E newState \in D.events, t \in PlayerTimes(D), throws \in MayThrow :
           Commit([handleVideoStateChange(The(subscription), newState, t, throws,
                                          Fx("handleVideoStateChange"))
                      EXCEPT !.ev.video = newState.videoId,
                             !.ev.stamp = Some(newState.timestamp),
                             !.ev.again = Applied(ev) /\ videoState = Some(newState)],
                  playlist)
    /\ UNCHANGED <<now, store, initialFetch, subscription>>

\* The roomId prop changes (VideoPlayer.tsx 46-90): the cleanup of the effect
\* runs, then the effect again, with the handlers of the render at that time.
\* The row of the new room holds any state; writes still in flight go to the
\* old row.
RoomChange(D) ==
    /\ Input(D)
    /\ subscription # Null
    /\ initialFetch = Null
    /\ subscription' = Some(Closure(Latest))
    /\ initialFetch' = Some(Latest)
    /\ intervals' = clearInterval(syncIntervalRef, intervals)
    /\ store' \in D.stores
    /\ inflight' = <<>>
    /\ ev' = Event("roomChange")
    /\ UNCHANGED <<component, now, videoState, localIsPlaying, isLoading,
                   isBuffering, playlist, currentVideoPosition, lastSyncTimeRef,
                   playerRef, syncIntervalRef, readyTimeout, player, notices>>

\* The component unmounts (VideoPlayer.tsx 81-88): the cleanup of the effect
\* unsubscribes the two channels and clears the interval syncIntervalRef
\* records; React removes the widget.  A pending fetchInitialState and a
\* pending ready timeout are not cancelled.
Unmount ==
    /\ Reaction
    /\ Mounted
    /\ subscription' = Null
    /\ intervals' = clearInterval(syncIntervalRef, intervals)
    /\ player' = Null
    /\ notices' = <<>>
    /\ playerRef' = IF playerRef = "current" THEN "stale" ELSE playerRef
    /\ ev' = Event("unmount")
    /\ UNCHANGED <<component, now, store, inflight, videoState, localIsPlaying,
                   isLoading, isBuffering, playlist, currentVideoPosition,
                   lastSyncTimeRef, syncIntervalRef, initialFetch, readyTimeout>>

\* ---- user actions --------------------------------------------------------
\* Selecting a video: playVideoFromPlaylist of the latest render, applied to
\* any video.  In the two components only playNextVideo calls it; the
\* selection of a video in the playlist panel reaches the player through the
\* room page.
SelectVideo(D) ==
    /\ Input(D)
    /\ subscription # Null
    /\ \E v \in D.videos :
           Commit([playVideoFromPlaylist(Latest, v, Fx("playVideoFromPlaylist"))
                      EXCEPT !.ev.video = v],
                  playlist)
    /\ UNCHANGED <<now, store, initialFetch, subscription>>

\* The skip button (VideoPlayer.tsx 497-504), rendered with the widget.
SkipNext(D) ==
    /\ Input(D)
    /\ player # Null
    /\ Commit(playNextVideo(Latest, Fx("skipNext")), playlist)
    /\ UNCHANGED <<now, store, initialFetch, subscription>>

\* The play/pause button (VideoPlayer.tsx 488-495), rendered with the widget.
TogglePlayPause(D) ==
    /\ Input(D)
    /\ player # Null
    /\ Commit(togglePlayPause(Latest, Fx("togglePlayPause")), playlist)
    /\ UNCHANGED <<now, store, initialFetch, subscription>>

\* ---- the widget's callbacks ----------------------------------------------
PlayerReady ==
    /\ Reaction
    /\ player # Null
    /\ ~The(player).ready
    /\ readyTimeout = Null
    /\ Commit(onPlayerReady(Latest, Fx("onPlayerReady")), playlist)
    /\ UNCHANGED <<now, store, initialFetch, subscription>>

ReadyTimeoutFires ==
    /\ Reaction
    /\ readyTimeout # Null
    /\ now >= The(readyTimeout).due
    /\ Commit(readyCallback(The(readyTimeout).videoState,
                             [Fx("readyTimeout") EXCEPT !.readyTimeout = Null]),
              playlist)
    /\ UNCHANGED <<now, store, initialFetch, subscription>>

\* onStateChange with the oldest status not yet reported.
PlayerStateChange(D) ==
    /\ Reaction
    /\ notices # <<>>
    /\ \E t \in PlayerTimes(D) :
           Commit([onPlayerStateChange(Latest, Head(notices), t,
                        [Fx("onPlayerStateChange") EXCEPT !.notices = Tail(@)])
                      EXCEPT !.ev.outcome = Head(notices),
                             !.ev.echo = Applied(ev) /\ ev.raised
                                         /\ Len(notices) = 1],
                  playlist)
    /\ UNCHANGED <<now, store, initialFetch, subscription>>

\* A tick of the sync interval.  The period (15 s, 5 s in UserPlaylists.tsx)
\* is longer than the modelled clock, so a tick may come at any instant after
\* the timer was set.
IntervalFires(D) ==
    /\ Reaction
    /\ \E i \in intervals, t \in PlayerTimes(D), throws \in MayThrow :
           Commit(IF throws
                  THEN Fx("syncInterval")
                  ELSE intervalCallback(i.videoState, t, Fx("syncInterval")),
                  playlist)
    /\ UNCHANGED <<now, store, initialFetch, subscription>>

\* ---- the YouTube widget: the viewer's own controls and playback ----------
PlayerStep(status, time, reported, op) ==
    /\ player # Null
    /\ The(player).ready
    /\ Len(notices) + Len(reported) <= MaxNotices
    /\ player' = Some([The(player) EXCEPT !.status = status, !.time = time])
    /\ notices' = notices \o reported
    /\ ev' = [Event(op) EXCEPT !.raised = reported # <<>>]
    /\ UNCHANGED <<component, now, store, inflight, videoState, localIsPlaying,
                   isLoading, isBuffering, playlist, currentVideoPosition,
                   lastSyncTimeRef, playerRef, syncIntervalRef, subscription,
                   initialFetch, readyTimeout, intervals>>

UserPlay(D) ==
    /\ Input(D)
    /\ player # Null
    /\ The(player).status \in {"unstarted", "cued", "paused", "ended"}
    /\ PlayerStep("playing", The(player).time, <<"playing">>, "userPlay")

UserPause(D) ==
    /\ Input(D)
    /\ player # Null
    /\ The(player).status \in {"playing", "buffering"}
    /\ PlayerStep("paused", The(player).time, <<"paused">>, "userPause")

PlayerBuffers(D) ==
    /\ Input(D)
    /\ player # Null
    /\ The(player).status = "playing"
    /\ PlayerStep("buffering", The(player).time, <<"buffering">>, "none")

PlayerResumes(D) ==
    /\ Input(D)
    /\ player # Null
    /\ The(player).status = "buffering"
    /\ PlayerStep("playing", The(player).time, <<"playing">>, "none")

PlayerEnds(D) ==
    /\ Input(D)
    /\ player # Null
    /\ The(player).status = "playing"
    /\ PlayerStep("ended", The(player).time, <<"ended">>, "none")

\* ---- the writes to video_rooms (VideoPlayer.tsx 240-249) -----------------
Remove(seq, i) == SubSeq(seq, 1, i - 1) \o SubSeq(seq, i + 1, Len(seq))

WriteStep(i, newStore, op) ==
    /\ store' = newStore
    /\ inflight' = Remove(inflight, i)
    /\ ev' = Event(op)
    /\ UNCHANGED <<component, now, videoState, localIsPlaying, isLoading,
                   isBuffering, playlist, currentVideoPosition, lastSyncTimeRef,
                   playerRef, syncIntervalRef, subscription, initialFetch,
                   readyTimeout, intervals, player, notices>>

WriteDone ==
    /\ Reaction
    /\ \E i \in 1..Len(inflight) : WriteStep(i, Some(inflight[i]), "none")

\* A failed write that puts the stored state back into the component.
WriteFailRollback ==
    /\ Reaction
    /\ \E i \in 1..Len(inflight) :
           /\ store' = store
           /\ inflight' = Remove(inflight, i)
           /\ ev' = Event("writeError")
           /\ videoState' = store
           /\ UNCHANGED <<component, now, localIsPlaying, isLoading, isBuffering,
                          playlist, currentVideoPosition, lastSyncTimeRef,
                          playerRef, syncIntervalRef, subscription, initialFetch,
                          readyTimeout, intervals, player, notices>>

\* The update returns an error: console.error and nothing else.
WriteFail ==
    /\ Reaction
    /\ \E i \in 1..Len(inflight) : WriteStep(i, store, "writeError")

\* ------------------------------------------------------------------------
\* Specifications.  Step(D) is one step of the participant or its environment
\* with the inputs of scope D.
\* ------------------------------------------------------------------------
Step(D) ==
    \/ Tick(D)
    \/ FetchInitialStateDone
    \/ FetchInitialStateFail
    \/ FetchRoomPlaylistDone(D)
    \/ FetchRoomPlaylistFail(D)
    \/ RemoteUpdate(D)
    \/ RoomChange(D)
    \/ Unmount
    \/ SelectVideo(D)
    \/ SkipNext(D)
    \/ TogglePlayPause(D)
    \/ PlayerReady
    \/ ReadyTimeoutFires
    \/ PlayerStateChange(D)
    \/ IntervalFires(D)
    \/ UserPlay(D)
    \/ UserPause(D)
    \/ PlayerBuffers(D)
    \/ PlayerResumes(D)
    \/ PlayerEnds(D)
    \/ WriteDone
    \/ WriteFail

AnyId == Videos \cup {NullId}

\* Spec: every playlist of up to MaxPlaylist entries, any video in the
\* deliveries, the playhead fixed at 0, a clock that ticks past the window.
PlaylistScope ==
    [peers |-> {<<>>},
     panels |-> {<<>>},
     components |-> {"VideoPlayer"},
     stores |-> {Null} \cup {Some(s) : s \in VideoStates({"A"}, {0}, {StartMs})},
     events |-> VideoStates(AnyId, {0}, {StartMs}),
     playlists |-> Playlists(Videos, MaxPlaylist),
     videos |-> Videos,
     times |-> {0},
     tick |-> SuppressWindowMs,
     ticks |-> MaxTicks,
     inputs |-> MaxInputs]

Init == InitOf(PlaylistScope)

Next == Step(PlaylistScope)

Spec == Init /\ [][Next]_vars

\* SpecEcho: a clock in half windows; deliveries stamped at the first instant
\* of the clock and one and a half windows before it.
EchoScope ==
    [peers |-> {<<>>},
     panels |-> {<<>>},
     components |-> {"VideoPlayer"},
     stores |-> {Null} \cup {Some(s) : s \in VideoStates({"A"}, {0}, {StartMs})},
     events |-> VideoStates({"A", "B"}, {0},
                            {StartMs - 3 * (SuppressWindowMs \div 2), StartMs}),
     playlists |-> Playlists({"A"}, 1),
     videos |-> {"A"},
     times |-> {0},
     tick |-> SuppressWindowMs \div 2,
     ticks |-> 3 * MaxTicks,
     inputs |-> MaxInputs]

InitEcho == InitOf(EchoScope)

NextEcho == Step(EchoScope)

SpecEcho == InitEcho /\ [][NextEcho]_vars

\* SpecDrift: both components, deliveries for the stored video and for
\* another one, playheads around the two thresholds above a local playhead at
\* LocalElapsed.
DriftTimes ==
    {LocalElapsed + d :
        d \in {SeekThresholdUserPlaylists, SeekThresholdUserPlaylists + 4,
               SeekThresholdVideoPlayer, SeekThresholdVideoPlayer + 1}}

DriftScope ==
    [peers |-> {<<>>},
     panels |-> {<<>>},
     components |-> Components,
     stores |-> {Null} \cup {Some(s) : s \in VideoStates({"A"}, {LocalElapsed}, {StartMs})},
     events |-> VideoStates({"A", "B"}, DriftTimes, {StartMs}),
     playlists |-> Playlists({"A"}, 1),
     videos |-> {"A"},
     times |-> {0, LocalElapsed},
     tick |-> SuppressWindowMs,
     ticks |-> MaxTicks,
     inputs |-> MaxInputs]

InitDrift == InitOf(DriftScope)

NextDrift == Step(DriftScope)

SpecDrift == InitDrift /\ [][NextDrift]_vars

\* SpecReplay: one more input than the other specifications, so that two
\* deliveries can follow a change of room; rows and deliveries for two
\* videos, the delivered playhead beyond the threshold.
ReplayScope ==
    [peers |-> {<<>>},
     panels |-> {<<>>},
     components |-> {"VideoPlayer"},
     stores |-> {Some(s) : s \in VideoStates({"A", "B"}, {LocalElapsed}, {StartMs})},
     events |-> VideoStates({"A", "B"},
                            {LocalElapsed + SeekThresholdVideoPlayer + 1}, {StartMs}),
     playlists |-> Playlists({"A"}, 1),
     videos |-> {"A"},
     times |-> {0},
     tick |-> SuppressWindowMs,
     ticks |-> MaxTicks,
     inputs |-> MaxInputs + 1]

InitReplay == InitOf(ReplayScope)

NextReplay == Step(ReplayScope)

SpecReplay == InitReplay /\ [][NextReplay]_vars

\* ------------------------------------------------------------------------
\* SpecRace: two participants of one room, each an instance of the component
\* with its own state, refs, widget and subscription (VideoPlayer.tsx 46-90),
\* sharing the video_rooms row.  peers[p] holds a participant's state in the
\* shape of Fx, with its playlist, its currentVideoPosition, the deliveries
\* of the subscription not yet handled (inbox) and the video its widget played
\* to the end (ended).  Both have loaded the same row and the same playlist
\* and play the row's video.
\* ------------------------------------------------------------------------
Participants == {1, 2}

\* Playlists without a repeated entry.
RacePlaylists ==
    {pl \in Playlists(Videos, MaxPlaylist) :
        /\ Len(pl) > 0
        /\ \A i, j \in 1..Len(pl) : pl[i] = pl[j] => i = j}

\* A participant after fetchInitialState, fetchRoomPlaylist, onPlayerReady
\* and the PLAYING notification of a row that is playing: nothing published
\* yet, the sync interval running.
PeerOf(row, pl) ==
    [videoState |-> Some(row), localIsPlaying |-> TRUE, isLoading |-> FALSE,
     isBuffering |-> FALSE, lastSyncTimeRef |-> 0, playerRef |-> "current",
     syncIntervalRef |-> Some(1),
     intervals |-> {[id |-> 1, videoState |-> Some(row)]},
     readyTimeout |-> Null,
     player |-> Some([videoId |-> row.videoId, status |-> "playing",
                      time |-> 0, ready |-> TRUE]),
     notices |-> <<>>, inflight |-> <<>>, ev |-> Event("none"),
     playlist |-> pl,
     currentVideoPosition |-> updateCurrentVideoPosition(Some(row), pl),
     inbox |-> <<>>, ended |-> Undefined]

RaceScope ==
    [peers |-> {[p \in Participants |-> PeerOf(row, pl)] :
                    row \in {s \in VideoStates(Videos, {0}, {StartMs}) : s.isPlaying},
                    pl \in RacePlaylists},
     panels |-> {<<>>},
     components |-> {"VideoPlayer"},
     stores |-> {Some(s) : s \in {v \in VideoStates(Videos, {0}, {StartMs}) : v.isPlaying}}]

InitRace ==
    /\ InitOf(RaceScope)
    /\ \A p \in Participants :
           /\ peers[p].videoState = store
           /\ isInPlaylist(The(store).videoId, peers[p].playlist)

\* The render a participant's onStateChange handler reads.
LatestOf(peer) ==
    Render(peer.videoState, peer.playlist, peer.localIsPlaying,
           peer.currentVideoPosition)

\* A handler of participant p returns: React renders p, the writes the handler
\* made reach the row in order, and the change feed queues each of them for
\* the other participant.
RaceCommit(p, fx) ==
    /\ peers' = [q \in Participants |->
                    IF q = p
                    THEN [fx EXCEPT !.inflight = <<>>,
                                    !.ev = Event("none"),
                                    !.player = widget(fx),
                                    !.currentVideoPosition =
                                        updateCurrentVideoPosition(fx.videoState,
                                                                   fx.playlist)]
                    ELSE [peers[q] EXCEPT !.inbox = @ \o fx.inflight]]
    /\ store' = IF fx.inflight = <<>>
                THEN store
                ELSE Some(fx.inflight[Len(fx.inflight)])

RaceUnchanged ==
    UNCHANGED <<component, inflight, videoState, localIsPlaying, isLoading,
                isBuffering, playlist, currentVideoPosition, lastSyncTimeRef,
                playerRef, syncIntervalRef, subscription, initialFetch,
                readyTimeout, intervals, player, notices, inputs, ev, panel>>

\* The widget of participant p plays its video to the end and raises ENDED.
RaceEnds(p) ==
    /\ peers[p].player # Null
    /\ The(peers[p].player).status = "playing"
    /\ peers' = [peers EXCEPT
                    ![p].player = Some([The(@) EXCEPT !.status = "ended"]),
                    ![p].notices = Append(@, "ended"),
                    ![p].ended = The(peers[p].player).videoId]
    /\ UNCHANGED <<now, store>>
    /\ RaceUnchanged

\* Participant p handles the oldest notification of its widget.
RaceNotified(p) ==
    /\ peers[p].notices # <<>>
    /\ RaceCommit(p, onPlayerStateChange(LatestOf(peers[p]), Head(peers[p].notices),
                                         The(peers[p].player).time,
                                         [peers[p] EXCEPT !.notices = Tail(@)]))
    /\ now' = now
    /\ RaceUnchanged

\* The subscription of participant p, created by the mount render, handles
\* the oldest delivery.
RaceDelivered(p) ==
    /\ peers[p].inbox # <<>>
    /\ RaceCommit(p, handleVideoStateChange(
                         Closure(FirstRender), Head(peers[p].inbox),
                         The(peers[p].player).time, FALSE,
                         [peers[p] EXCEPT !.inbox = Tail(@)]))
    /\ now' = now
    /\ RaceUnchanged

\* A suppression window passes.
RaceTick ==
    /\ now + SuppressWindowMs <= StartMs + MaxTicks * SuppressWindowMs
    /\ now' = now + SuppressWindowMs
    /\ UNCHANGED <<store, peers>>
    /\ RaceUnchanged

NextRace ==
    \/ RaceTick
    \/ \E p \in Participants : RaceEnds(p)
    \/ \E p \in Participants : RaceNotified(p)
    \/ \E p \in Participants : RaceDelivered(p)

SpecRace == InitRace /\ [][NextRace]_vars

\* ------------------------------------------------------------------------
\* SpecConverge: the two participants of SpecRace with their viewers' actions
\* (a selection from the playlist, play on the widget), the ticks of their
\* sync intervals and the passing of time.  A behaviour holds at most
\* MaxInputs actions of the viewers; after them only the timers, the
\* deliveries and the notifications go on.  Time is measured back from the
\* present: when a window passes, a lastSyncTimeRef inside the window moves
\* one window into the past and now stays (the handlers read only the
\* difference of the two).
\* ------------------------------------------------------------------------

\* The other participant's queue has room for the writes of one handler.
RaceRoom(p) == \A q \in Participants \ {p} : Len(peers[q].inbox) < MaxInFlight

\* The viewer of participant p selects an entry of the playlist.
RaceSelects(p) ==
    /\ inputs < MaxInputs
    /\ inputs' = inputs + 1
    /\ RaceRoom(p)
    /\ \E i \in 1..Len(peers[p].playlist) :
           RaceCommit(p, playVideoFromPlaylist(LatestOf(peers[p]),
                                               peers[p].playlist[i], peers[p]))
    /\ UNCHANGED <<now, component, inflight, videoState, localIsPlaying, isLoading,
                   isBuffering, playlist, currentVideoPosition, lastSyncTimeRef,
                   playerRef, syncIntervalRef, subscription, initialFetch,
                   readyTimeout, intervals, player, notices, ev, panel>>

\* The viewer of participant p presses play on the widget, which starts and
\* raises PLAYING.
RacePlays(p) ==
    /\ inputs < MaxInputs
    /\ inputs' = inputs + 1
    /\ peers[p].player # Null
    /\ The(peers[p].player).status \in {"unstarted", "cued", "paused", "ended"}
    /\ Len(peers[p].notices) < MaxNotices
    /\ peers' = [peers EXCEPT
                    ![p].player = Some([The(@) EXCEPT !.status = "playing"]),
                    ![p].notices = Append(@, "playing")]
    /\ UNCHANGED <<now, store, component, inflight, videoState, localIsPlaying,
                   isLoading, isBuffering, playlist, currentVideoPosition,
                   lastSyncTimeRef, playerRef, syncIntervalRef, subscription,
                   initialFetch, readyTimeout, intervals, player, notices, ev, panel>>

\* A sync interval of participant p ticks.  The period (15 s) is longer than
\* the window, so a tick never follows a write of the participant within the
\* window.
RaceIntervalFires(p) ==
    /\ RaceRoom(p)
    /\ ~justSent(peers[p])
    /\ \E i \in peers[p].intervals :
           RaceCommit(p, intervalCallback(i.videoState, The(peers[p].player).time,
                                          peers[p]))
    /\ now' = now
    /\ RaceUnchanged

\* A suppression window passes.
RaceWindowPasses ==
    /\ \E p \in Participants : justSent(peers[p])
    /\ peers' = [p \in Participants |->
                    IF justSent(peers[p])
                    THEN [peers[p] EXCEPT !.lastSyncTimeRef = @ - SuppressWindowMs]
                    ELSE peers[p]]
    /\ UNCHANGED <<now, store>>
    /\ RaceUnchanged

NextConverge ==
    \/ RaceWindowPasses
    \/ \E p \in Participants : RaceSelects(p)
    \/ \E p \in Participants : RacePlays(p)
    \/ \E p \in Participants : RaceIntervalFires(p)
    \/ \E p \in Participants : RaceNotified(p)
    \/ \E p \in Participants : RaceDelivered(p)

\* Time passes; a timer that is set ticks again and again; the widget's
\* notifications and the deliveries of the subscription are handled.
FairConverge ==
    /\ WF_vars(RaceWindowPasses)
    /\ \A p \in Participants :
           /\ WF_vars(RaceIntervalFires(p))
           /\ WF_vars(RaceNotified(p))
           /\ WF_vars(RaceDelivered(p))

\* Both participants play the first entry of a playlist of two.
InitConverge ==
    /\ InitRace
    /\ \A p \in Participants : peers[p].playlist = <<"A", "B">>
    /\ The(store).videoId = "A"

SpecConverge == InitConverge /\ [][NextConverge]_vars /\ FairConverge

\* ------------------------------------------------------------------------
\* SpecWrites: one participant whose writes to video_rooms are on their way.
\* updateRoomVideoState starts the update and does not await it (VideoPlayer.tsx
\* 239-249), so a second write can be started while the first is under way,
\* and the two requests reach the table in either order.  peers holds the one
\* participant; its inflight field holds the writes started and not yet
\* applied to the row.
\* ------------------------------------------------------------------------
Writer == 1

WritesScope ==
    [peers |-> {[p \in {Writer} |-> PeerOf(row, pl)] :
                    row \in {s \in VideoStates(Videos, {0}, {StartMs}) : s.isPlaying},
                    pl \in RacePlaylists},
     panels |-> {<<>>},
     components |-> {"VideoPlayer"},
     stores |-> {Some(s) : s \in {v \in VideoStates(Videos, {0}, {StartMs}) : v.isPlaying}}]

InitWrites ==
    /\ InitOf(WritesScope)
    /\ peers[Writer].videoState = store
    /\ isInPlaylist(The(store).videoId, peers[Writer].playlist)

\* A handler of the participant returns: React renders; the writes it started
\* stay on their way.
WritesCommit(fx) ==
    peers' = [peers EXCEPT
                 ![Writer] = [fx EXCEPT
                                 !.ev = Event("none"),
                                 !.player = widget(fx),
                                 !.currentVideoPosition =
                                     updateCurrentVideoPosition(fx.videoState,
                                                                fx.playlist)]]

\* The viewer selects an entry of the playlist.
WriterSelects ==
    /\ inputs < MaxInputs
    /\ inputs' = inputs + 1
    /\ Len(peers[Writer].inflight) <= MaxInFlight
    /\ \E i \in 1..Len(peers[Writer].playlist) :
           WritesCommit(playVideoFromPlaylist(LatestOf(peers[Writer]),
                                              peers[Writer].playlist[i],
                                              peers[Writer]))
    /\ UNCHANGED <<now, store, component, inflight, videoState, localIsPlaying,
                   isLoading, isBuffering, playlist, currentVideoPosition,
                   lastSyncTimeRef, playerRef, syncIntervalRef, subscription,
                   initialFetch, readyTimeout, intervals, player, notices, ev, panel>>

\* One of the writes on their way is applied to the row.
WriteLands ==
    /\ \E i \in 1..Len(peers[Writer].inflight) :
           /\ store' = Some(peers[Writer].inflight[i])
           /\ peers' = [peers EXCEPT ![Writer].inflight = Remove(@, i)]
    /\ now' = now
    /\ RaceUnchanged

\* Time passes.
WriterTick ==
    /\ now + SuppressWindowMs <= StartMs + MaxTicks * SuppressWindowMs
    /\ now' = now + SuppressWindowMs
    /\ UNCHANGED <<store, peers>>
    /\ RaceUnchanged

NextWrites ==
    \/ WriterSelects
    \/ WriteLands
    \/ WriterTick

SpecWrites == InitWrites /\ [][NextWrites]_vars

\* ------------------------------------------------------------------------
\* SpecPanel: the playlist panel of one client (src/unnamed/part_000) and the
\* playlist_items rows of its room.  panel holds the rows (id and position;
\* the other columns play no part), the playlistItems state of the panel,
\* the position updates moveItem has still to send (updates), whether a
\* fetchPlaylist is under way (fetching) and the next row id the table hands
\* out.  The table starts with positions 0..n-1 and the panel has fetched it.
\* ------------------------------------------------------------------------

\* select('*').order('position', {ascending: true}): the rows in an order of
\* ascending position; rows with equal positions come in any order.
Ordered(rows) ==
    {s \in [1..Cardinality(rows) -> rows] :
        /\ \A i, j \in 1..Cardinality(rows) : s[i] = s[j] => i = j
        /\ \A i, j \in 1..Cardinality(rows) : i < j => s[i].position <= s[j].position}

\* A table of n rows at positions 0..n-1.
DenseRows(n) == {[id |-> i, position |-> i - 1] : i \in 1..n}

PanelScope ==
    [peers |-> {<<>>},
     panels |-> {[rows |-> DenseRows(n), playlistItems |-> items, updates |-> <<>>,
                  fetching |-> FALSE, nextId |-> n + 1] :
                     n \in 0..MaxPlaylist, items \in UNION {Ordered(DenseRows(m)) : m \in 0..MaxPlaylist}},
     components |-> {"VideoPlayer"},
     stores |-> {Null}]

InitPanel ==
    /\ InitOf(PanelScope)
    /\ panel.playlistItems \in Ordered(panel.rows)

PanelUnchanged ==
    UNCHANGED <<component, now, store, inflight, videoState, localIsPlaying,
                isLoading, isBuffering, playlist, currentVideoPosition,
                lastSyncTimeRef, playerRef, syncIntervalRef, subscription,
                initialFetch, readyTimeout, intervals, player, notices, inputs,
                ev, peers>>

\* playlistItems.findIndex(item => item.id === id), counted from 1; 0 if none.
IndexOfItem(items, id) ==
    IF \E i \in 1..Len(items) : items[i].id = id
    THEN CHOOSE i \in 1..Len(items) : items[i].id = id
    ELSE 0

\* playlistItems.filter(item => item.id !== id)
WithoutItem(items, id) ==
    LET keep == {i \in 1..Len(items) : items[i].id # id}
        nth(k) == CHOOSE i \in keep : Cardinality({j \in keep : j < i}) = k - 1
    IN  [k \in 1..Cardinality(keep) |-> items[nth(k)]]

\* removeItem (part_000 77-100): delete the row, drop the entry from the state.
removeItem(p, id) ==
    [p EXCEPT !.rows = {r \in @ : r.id # id},
              !.playlistItems = WithoutItem(@, id)]

\* The index moveItem swaps with: Math.max(0, currentIndex - 1) for 'up',
\* Math.min(playlistItems.length - 1, currentIndex + 1) for 'down'.
newIndexOf(items, currentIndex, direction) ==
    IF direction = "up"
    THEN IF currentIndex - 1 < 1 THEN 1 ELSE currentIndex - 1
    ELSE IF currentIndex + 1 > Len(items) THEN Len(items) ELSE currentIndex + 1

\* moveItem (part_000 102-147): swap the two entries in the state, give each
\* its index as position, and queue the two row updates.
moveItem(p, id, direction) ==
    LET currentIndex == IndexOfItem(p.playlistItems, id)
        newIndex == newIndexOf(p.playlistItems, currentIndex, direction)
        itemToMove == p.playlistItems[currentIndex]
        displacedItem == p.playlistItems[newIndex]
    IN  IF currentIndex = 0 \/ newIndex = currentIndex
        THEN p
        ELSE [p EXCEPT
                 !.playlistItems =
                     [@ EXCEPT ![currentIndex] = [displacedItem EXCEPT
                                                     !.position = currentIndex - 1],
                               ![newIndex] = [itemToMove EXCEPT
                                                 !.position = newIndex - 1]],
                 !.updates = <<[id |-> itemToMove.id, position |-> newIndex - 1],
                               [id |-> displacedItem.id, position |-> currentIndex - 1]>>]

\* update({position}).eq('id', id): a row that no longer exists is not
\* updated.
updatePosition(rows, u) ==
    {IF r.id = u.id THEN [r EXCEPT !.position = u.position] ELSE r : r \in rows}

\* addVideoToPlaylist (part_000 198-240): the new row takes the highest
\* position of the table plus one (0 in an empty table); fetchPlaylist is
\* started and not awaited.
nextPosition(rows) ==
    IF rows = {}
    THEN 0
    ELSE (CHOOSE m \in {r.position : r \in rows} :
              \A r \in rows : r.position <= m) + 1

addVideoToPlaylist(p) ==
    [p EXCEPT !.rows = @ \cup {[id |-> p.nextId, position |-> nextPosition(p.rows)]},
              !.fetching = TRUE,
              !.nextId = @ + 1]

\* The client starts an operation when the one before has finished.
PanelIdle == panel.updates = <<>>

RemoveItem ==
    /\ PanelIdle
    /\ \E i \in 1..Len(panel.playlistItems) :
           panel' = removeItem(panel, panel.playlistItems[i].id)
    /\ PanelUnchanged

MoveItem ==
    /\ PanelIdle
    /\ \E i \in 1..Len(panel.playlistItems), direction \in {"up", "down"} :
           panel' = moveItem(panel, panel.playlistItems[i].id, direction)
    /\ PanelUnchanged

\* The next of the two awaited updates of moveItem reaches the table.
UpdateDone ==
    /\ panel.updates # <<>>
    /\ panel' = [panel EXCEPT !.rows = updatePosition(@, Head(panel.updates)),
                              !.updates = Tail(@)]
    /\ PanelUnchanged

AddVideoToPlaylist ==
    /\ PanelIdle
    /\ Cardinality(panel.rows) < MaxPlaylist
    /\ panel.nextId <= 2 * MaxPlaylist
    /\ panel' = addVideoToPlaylist(panel)
    /\ PanelUnchanged

\* The fetchPlaylist started by addVideoToPlaylist returns.
FetchPlaylistDone ==
    /\ panel.fetching
    /\ \E items \in Ordered(panel.rows) :
           panel' = [panel EXCEPT !.playlistItems = items, !.fetching = FALSE]
    /\ PanelUnchanged

NextPanel ==
    \/ RemoveItem
    \/ MoveItem
    \/ UpdateDone
    \/ AddVideoToPlaylist
    \/ FetchPlaylistDone

SpecPanel == InitPanel /\ [][NextPanel]_vars

\* ------------------------------------------------------------------------
\* SpecAdders: two clients adding to one room playlist (part_000 198-220,
\* PlaylistEditor.tsx 58-76).  addVideoToPlaylist awaits the select of the
\* highest position and then awaits the insert, so another client's select or
\* insert can come between the two.  panel holds the rows, for each client the
\* position it has computed and not yet inserted (reading), and the next row
\* id.  The table starts as a table of MaxPlaylist rows at positions
\* 0..MaxPlaylist-1 from which any rows have been removed.
\* ------------------------------------------------------------------------
Clients == {1, 2}

AddersScope ==
    [peers |-> {<<>>},
     panels |-> {[rows |-> rows, reading |-> [c \in Clients |-> Null],
                  nextId |-> MaxPlaylist + 1] :
                     rows \in SUBSET DenseRows(MaxPlaylist)},
     components |-> {"VideoPlayer"},
     stores |-> {Null}]

InitAdders == InitOf(AddersScope)

\* The select of client c returns: nextPosition is computed from the rows of
\* that moment.
SelectMaxDone(c) ==
    /\ panel.reading[c] = Null
    /\ panel.nextId + Cardinality({d \in Clients : panel.reading[d] # Null})
           <= 2 * MaxPlaylist
    /\ panel' = [panel EXCEPT !.reading[c] = Some(nextPosition(panel.rows))]
    /\ PanelUnchanged

\* The insert of client c reaches the table with the position computed
\* before.
InsertDone(c) ==
    /\ panel.reading[c] # Null
    /\ panel' = [panel EXCEPT
                    !.rows = @ \cup {[id |-> panel.nextId,
                                      position |-> The(panel.reading[c])]},
                    !.reading[c] = Null,
                    !.nextId = @ + 1]
    /\ PanelUnchanged

NextAdders ==
    \/ \E c \in Clients : SelectMaxDone(c)
    \/ \E c \in Clients : InsertDone(c)

SpecAdders == InitAdders /\ [][NextAdders]_vars

\* ------------------------------------------------------------------------
\* SpecSavers: saves of the room playlist into one user playlist (part_000
\* 242-302 saveAllToUserPlaylist, UserPlaylists.tsx 170-242
\* addAllToPlaylist).  The loop awaits, for each entry of the room playlist,
\* the select of the rows with the entry's video_id, then the select of the
\* highest position, then the insert; the requests of another save can come
\* between any two of them.  The two clients are the room's playlist panel
\* and the user-playlists panel (each with its own isSaving), or two tabs.
\* panel holds the rows of user_playlist_items of the target playlist, the
\* room playlist's video_ids, each client's place in its loop, the next row
\* id and the number of saves started.
\* ------------------------------------------------------------------------
Idle == [phase |-> "idle", items |-> <<>>, next |-> NoPosition]

\* A user playlist holding the videos of vs, one row each.
SavedRows(vs) ==
    {[id |-> i, video_id |-> vs[i], position |-> i - 1] : i \in 1..Len(vs)}

SaversScope ==
    [peers |-> {<<>>},
     panels |-> {[rows |-> SavedRows(vs), room |-> room,
                  saver |-> [c \in Clients |-> Idle],
                  nextId |-> MaxPlaylist + 1, saves |-> 0] :
                     vs \in RacePlaylists \cup {<<>>},
                     room \in Playlists(Videos, MaxPlaylist) \ {<<>>}},
     components |-> {"VideoPlayer"},
     stores |-> {Null}]

InitSavers == InitOf(SaversScope)

\* The loop moves to its next entry, or the save completes.
nextItem(s) ==
    IF Len(s.items) > 1
    THEN [phase |-> "exists", items |-> Tail(s.items), next |-> NoPosition]
    ELSE Idle

\* saveAllToUserPlaylist / addAllToPlaylist is called: the first select is
\* sent.  The button is disabled while the component's isSaving is set.
SaveAll(c) ==
    /\ panel.saver[c].phase = "idle"
    /\ panel.saves < MaxInputs
    /\ panel' = [panel EXCEPT
                    !.saver[c] = [phase |-> "exists", items |-> panel.room,
                                  next |-> NoPosition],
                    !.saves = @ + 1]
    /\ PanelUnchanged

\* The select of the rows with the entry's video_id returns: `continue` when
\* there is one, else the select of the highest position is sent.
ExistingItemsDone(c) ==
    /\ panel.saver[c].phase = "exists"
    /\ panel' = [panel EXCEPT !.saver[c] =
                    IF \E r \in panel.rows : r.video_id = Head(@.items)
                    THEN nextItem(@)
                    ELSE [@ EXCEPT !.phase = "max"]]
    /\ PanelUnchanged

\* The select of the highest position returns: nextPosition is computed and
\* the insert is sent.
CurrentItemsDone(c) ==
    /\ panel.saver[c].phase = "max"
    /\ panel' = [panel EXCEPT !.saver[c] =
                    [@ EXCEPT !.phase = "insert",
                              !.next = nextPosition(panel.rows)]]
    /\ PanelUnchanged

\* The insert reaches the table.
SaveInsertDone(c) ==
    /\ panel.saver[c].phase = "insert"
    /\ panel' = [panel EXCEPT
                    !.rows = @ \cup {[id |-> panel.nextId,
                                      video_id |-> Head(panel.saver[c].items),
                                      position |-> panel.saver[c].next]},
                    !.nextId = @ + 1,
                    !.saver[c] = nextItem(@)]
    /\ PanelUnchanged

NextSavers ==
    \/ \E c \in Clients : SaveAll(c)
    \/ \E c \in Clients : ExistingItemsDone(c)
    \/ \E c \in Clients : CurrentItemsDone(c)
    \/ \E c \in Clients : SaveInsertDone(c)

SpecSavers == InitSavers /\ [][NextSavers]_vars

\* ------------------------------------------------------------------------
\* Properties
\* ------------------------------------------------------------------------

\* The step was an auto-advance: the skip button, or the player's ENDED.
Advanced(e) ==
    \/ e.op = "skipNext"
    \/ e.op = "onPlayerStateChange" /\ e.outcome = "ended"

\* The branches of handleVideoStateChange past the suppression window.
Processed == {"ignored", "stored", "switched", "threw", "reconciled"}

\* The video is the video_id of no entry of the list.
Absent(v, pl) == \A i \in 1..Len(pl) : pl[i] # v

\* C1 - membership invariant: whenever the playlist is non-empty, the local
\* videoState's videoId is null or the video_id of some entry of the playlist.
C1_MembershipInvariant ==
    Len(playlist) > 0 =>
        ~Truthy(VideoIdOf(videoState)) \/ ~Absent(VideoIdOf(videoState), playlist)

\* C2 - rejection: selecting a video absent from a non-empty playlist shows
\* the "can't play" toast and changes nothing else: not the local videoState,
\* not lastSyncTimeRef, and nothing is written.
C2_Rejection ==
    [][(/\ ev'.op = "playVideoFromPlaylist"
        /\ Len(playlist) > 0
        /\ Absent(ev'.video, playlist))
       => /\ ev'.toast = {"cant_play"}
          /\ ~ev'.published
          /\ UNCHANGED <<videoState, lastSyncTimeRef, inflight, store,
                         localIsPlaying, isLoading, isBuffering, playlist,
                         currentVideoPosition, playerRef, syncIntervalRef,
                         readyTimeout, intervals, player, notices>>]_vars

C2_Rejected ==
    /\ ev.op = "playVideoFromPlaylist"
    /\ Len(playlist) > 0
    /\ Absent(ev.video, playlist)
    /\ ev.toast = {"cant_play"}
    /\ videoState # Null

\* C3 - empty playlist bypass: with an empty playlist, selecting any video v
\* makes v the local videoId and writes a state with videoId v, from every
\* state, the one without a videoState included.
C3_EmptyPlaylistBypass ==
    [][(ev'.op = "playVideoFromPlaylist" /\ Len(playlist) = 0)
       => /\ VideoIdOf(videoState') = ev'.video
          /\ ev'.published]_vars

\* C4 - echo window: a delivery handled half a window (500 ms) after the last
\* local write is discarded, leaving videoState, the play flag and the player
\* untouched; one handled one and a half windows (1500 ms) after it is
\* processed.
C4_EchoWindow ==
    [][ev'.op = "handleVideoStateChange"
       => /\ now - lastSyncTimeRef = SuppressWindowMs \div 2
                => /\ ev'.outcome = "suppressed"
                   /\ UNCHANGED <<videoState, localIsPlaying, player, notices>>
          /\ now - lastSyncTimeRef = 3 * (SuppressWindowMs \div 2)
                => ev'.outcome \in Processed]_vars

C4_EchoProcessedLate ==
    /\ ev.op = "handleVideoStateChange"
    /\ now - lastSyncTimeRef = 3 * (SuppressWindowMs \div 2)
    /\ ev.outcome \in {"stored", "switched", "reconciled"}
    /\ ev.stamp = Some(lastSyncTimeRef)
    /\ videoState # Null
    /\ The(videoState).timestamp = lastSyncTimeRef

\* C5 as stated - once the participant has written, a delivery is discarded
\* exactly when the timestamp the delivered state carries lies within the
\* window of the last local write, whenever it is handled.
C5_ByEventTime ==
    [][(ev'.op = "handleVideoStateChange" /\ lastSyncTimeRef >= StartMs)
       => (ev'.outcome = "suppressed"
             <=> Abs(The(ev'.stamp) - lastSyncTimeRef) < SuppressWindowMs)]_vars

\* C5 amended - a delivery is discarded exactly when it is handled less than
\* the window (1000 ms) after the last local write, whatever timestamp the
\* delivered state carries.
C5_ByHandlingTime ==
    [][ev'.op = "handleVideoStateChange"
       => (ev'.outcome = "suppressed"
             <=> now - lastSyncTimeRef < SuppressWindowMs)]_vars

C5_OldStampSuppressed ==
    /\ ev.op = "handleVideoStateChange"
    /\ ev.outcome = "suppressed"
    /\ lastSyncTimeRef >= StartMs
    /\ lastSyncTimeRef - The(ev.stamp) >= SuppressWindowMs

\* The step reconciled a delivery for the video already loaded, with the
\* player's position read as `local`.
Reconciled(e, local) ==
    /\ e.op = "handleVideoStateChange"
    /\ e.outcome = "reconciled"
    /\ e.local = Some(local)

\* C6 as stated - threshold 2 s (UserPlaylists.tsx), local playhead 10.0 s: a
\* delivery at 12.4 s issues no seek, one at 13.1 s a seek to 13.1 s.
C6_BoundaryAsStated ==
    [][(Reconciled(ev', LocalElapsed) /\ SeekThreshold = SeekThresholdUserPlaylists)
       => /\ The(videoState').currentTime = LocalElapsed + 24 => ev'.seek = Null
          /\ The(videoState').currentTime = LocalElapsed + 31
                => ev'.seek = Some(LocalElapsed + 31)]_vars

\* C6 amended - local playhead 10.0 s: with the threshold of 2 s
\* (UserPlaylists.tsx) deliveries at 12.4 s and at 13.1 s both issue a seek;
\* with the threshold of 3 s (VideoPlayer.tsx) 12.4 s issues none and 13.1 s
\* issues one; the target is the delivered playhead, with nothing added.
C6_Boundary ==
    [][Reconciled(ev', LocalElapsed)
       => LET remote == The(videoState').currentTime
          IN  /\ (component = "UserPlaylists"
                    /\ remote \in {LocalElapsed + 24, LocalElapsed + 31})
                 => ev'.seek = Some(remote)
              /\ (component = "VideoPlayer" /\ remote = LocalElapsed + 24)
                 => ev'.seek = Null
              /\ (component = "VideoPlayer" /\ remote = LocalElapsed + 31)
                 => ev'.seek = Some(remote)]_vars

C6_SeekAtTwoPointFour ==
    /\ component = "UserPlaylists"
    /\ Reconciled(ev, LocalElapsed)
    /\ ev.seek = Some(LocalElapsed + 24)
    /\ playerRef = "current"
    /\ The(player).time = LocalElapsed + 24

C8_Wrap ==
    [][(/\ Advanced(ev')
        /\ Len(playlist) > 0
        /\ findIndex(playlist, VideoIdOf(videoState)) >= 0)
       => LET i == findIndex(playlist, VideoIdOf(videoState))
          IN  /\ ev'.video = playlist[((i + 1) % Len(playlist)) + 1]
              /\ VideoIdOf(videoState') = ev'.video]_vars

C8_WrappedOnEnded ==
    /\ ev.op = "onPlayerStateChange"
    /\ ev.outcome = "ended"
    /\ "next" \in ev.toast
    /\ Len(playlist) = 3
    /\ Cardinality({playlist[i] : i \in 1..3}) = 3
    /\ ev.video = playlist[1]
    /\ VideoIdOf(videoState) = playlist[1]

\* C9 - fallback: with a non-empty playlist in which the current video is
\* not found, the skip button and the player's ENDED choose playlist[0].
C9_Fallback ==
    [][(/\ Advanced(ev')
        /\ Len(playlist) > 0
        /\ (~Truthy(VideoIdOf(videoState)) \/ Absent(VideoIdOf(videoState), playlist)))
       => /\ ev'.video = playlist[1]
          /\ VideoIdOf(videoState') = playlist[1]]_vars

C9_RestartedOnEnded ==
    /\ ev.op = "onPlayerStateChange"
    /\ ev.outcome = "ended"
    /\ "restarted" \in ev.toast
    /\ ev.published
    /\ ev.video = playlist[1]
    /\ VideoIdOf(videoState) = playlist[1]

\* C10 - empty playlist: the skip button and the player's ENDED with an empty
\* playlist choose nothing, write nothing and leave the local videoState and
\* the loaded video as they are.
C10_EmptyPlaylist ==
    [][(Advanced(ev') /\ Len(playlist) = 0)
       => /\ ev'.video = Undefined
          /\ ~ev'.published
          /\ ev'.toast = {}
          /\ UNCHANGED <<videoState, inflight, store, lastSyncTimeRef>>
          /\ player' # Null
          /\ The(player').videoId = The(player).videoId]_vars

C10_EndedOnEmpty ==
    /\ ev.op = "onPlayerStateChange"
    /\ ev.outcome = "ended"
    /\ Len(playlist) = 0
    /\ videoState # Null
    /\ ~ev.published

\* C11: when the delivery the component applied in the step before is
\* delivered and applied again, the second application leaves the local
\* videoState, the local play flag, the player (loaded video, status,
\* position) and the pending player notifications as the first left them.
C11_Idempotent ==
    [][(ev'.again /\ Applied(ev'))
           => /\ videoState' = videoState
              /\ localIsPlaying' = localIsPlaying
              /\ player' = player
              /\ notices' = notices]_vars

\* C12: the cleanup of the effect (unmount or change of room) leaves no sync
\* interval running, and once the component is unmounted no step handles a
\* delivery, starts an interval or writes the room's video_state.
C12_Teardown ==
    [][/\ (ev'.op \in {"unmount", "roomChange"} => intervals' = {})
       /\ (~Mounted => /\ ~ev'.published
                       /\ inflight' \in {inflight} \cup {Remove(inflight, i) : i \in 1..Len(inflight)}
                       /\ intervals' = {}
                       /\ ev'.op # "handleVideoStateChange")]_vars

\* C13: a delivery handled outside the suppression window that names a
\* video absent from the component's non-empty playlist changes neither
\* videoState nor the play flag nor the player, writes nothing and raises no
\* toast.
C13_Discarded ==
    [][(/\ ev'.op = "handleVideoStateChange"
        /\ ev'.outcome # "suppressed"
        /\ Truthy(ev'.video)
        /\ Len(playlist) > 0
        /\ Absent(ev'.video, playlist))
           => /\ videoState' = videoState
              /\ localIsPlaying' = localIsPlaying
              /\ player' = player
              /\ ~ev'.published
              /\ ev'.toast = {}]_vars

\* C14: the failure of a write leaves videoState, the play flag, the player,
\* its pending notifications, the playlist, the subscription and every timer
\* as they were: nothing is rolled back and the component goes on as before.
C14_NoRollback ==
    [][ev'.op = "writeError"
           => UNCHANGED <<videoState, localIsPlaying, isLoading, isBuffering,
                          playlist, currentVideoPosition, lastSyncTimeRef,
                          playerRef, syncIntervalRef, subscription, initialFetch,
                          readyTimeout, intervals, player, notices>>]_vars

\* A write has failed and the component still holds the state it published,
\* which the room row does not.
C14_FailedWriteKept ==
    /\ ev.op = "writeError"
    /\ videoState # Null
    /\ videoState # store
    /\ The(videoState).timestamp = lastSyncTimeRef
    /\ player # Null

\* C15: every failed write raises a toast, and the write is not issued again.
C15_WriteErrorNotice ==
    [][ev'.op = "writeError"
           => /\ ev'.toast # {}
              /\ Len(inflight') < Len(inflight)]_vars

\* C16: a failed fetchRoomPlaylist leaves the playlist as it was, and the
\* membership check of the next selection or delivery is made against that
\* playlist: the selection is refused, the delivery ignored, exactly when the
\* video is absent from it and it is not empty.
C16_Retained ==
    [][/\ (ev'.op = "fetchRoomPlaylistError" => playlist' = playlist)
       /\ (ev.op = "fetchRoomPlaylistError" /\ ev'.op = "playVideoFromPlaylist"
               => ("cant_play" \in ev'.toast
                       <=> Len(playlist) > 0 /\ Absent(ev'.video, playlist)))
       /\ ((/\ ev.op = "fetchRoomPlaylistError"
            /\ ev'.op = "handleVideoStateChange"
            /\ ev'.outcome # "suppressed")
               => (ev'.outcome = "ignored"
                       <=> /\ Truthy(ev'.video)
                           /\ Len(playlist) > 0
                           /\ Absent(ev'.video, playlist)))]_vars

\* C17: when the component holds no videoState, selecting a video that
\* passes the membership check (the playlist is empty or holds the video)
\* creates a local videoState with that videoId and writes it.
C17_CreatedByFirstWrite ==
    [][(/\ ev'.op = "playVideoFromPlaylist"
        /\ videoState = Null
        /\ (Len(playlist) = 0 \/ ~Absent(ev'.video, playlist)))
           => /\ videoState' # Null
              /\ VideoIdOf(videoState') = ev'.video
              /\ ev'.published]_vars

\* C18: the PLAYING or PAUSED notification raised by the playVideo() or
\* pauseVideo() call of the delivery applied in the step before writes
\* nothing.
C18_NoFeedback ==
    [][(/\ ev'.op = "onPlayerStateChange"
        /\ ev'.echo
        /\ ev'.outcome \in {"playing", "paused"})
           => /\ ~ev'.published
              /\ inflight' = inflight
              /\ lastSyncTimeRef' = lastSyncTimeRef]_vars

\* The notification of a remote play has been handled without a write.
C18_RemotePlayNotified ==
    /\ ev.op = "onPlayerStateChange"
    /\ ev.echo
    /\ ev.outcome = "playing"
    /\ ~ev.published
    /\ localIsPlaying
    /\ IsPlayingOf(videoState)
    /\ player # Null
    /\ The(player).status = "playing"

\* The step recorded in e was the viewer's own play or pause (the button of
\* the component or the controls of the widget) and made the player raise a
\* notification.
LocalAction(e) ==
    /\ e.op \in {"togglePlayPause", "userPlay", "userPause"}
    /\ e.raised

\* C19: the PLAYING or PAUSED notification of the viewer's own play or
\* pause, handled in the next step, writes the local videoState with
\* isPlaying equal to the player's new status, currentTime equal to the
\* player's position and timestamp equal to the clock, and records the clock
\* in lastSyncTimeRef.
C19_LocalActionPublished ==
    [][(/\ LocalAction(ev)
        /\ ev'.op = "onPlayerStateChange"
        /\ ev'.outcome \in {"playing", "paused"})
           => /\ ev'.published
              /\ Len(inflight') = Len(inflight) + 1
              /\ inflight'[Len(inflight')] =
                     [videoId |-> VideoIdOf(videoState),
                      isPlaying |-> (ev'.outcome = "playing"),
                      currentTime |-> The(player).time,
                      timestamp |-> now]
              /\ videoState' = Some(inflight'[Len(inflight')])
              /\ lastSyncTimeRef' = now]_vars

\* C20: a delivery that is applied while the widget shows another video makes
\* the widget load the delivered video, without a seek, and sets the play
\* flag to the delivered isPlaying; when the delivered state is playing, the
\* new video is playing or its start is pending (the widget has yet to
\* report ready, or the ready timeout has yet to fire).
C20_SwitchPlays ==
    [][(/\ ev'.op = "handleVideoStateChange"
        /\ Applied(ev')
        /\ Truthy(ev'.video)
        /\ player # Null
        /\ playerRef = "current"
        /\ The(player).videoId # ev'.video)
           => /\ player' # Null
              /\ The(player').videoId = ev'.video
              /\ ev'.seek = Null
              /\ localIsPlaying' = IsPlayingOf(videoState')
              /\ IsPlayingOf(videoState')
                     => \/ The(player').status = "playing"
                        \/ ~The(player').ready
                        \/ readyTimeout' # Null]_vars

\* C21: a delivery that is applied while the widget shows the delivered
\* video calls playVideo() or pauseVideo() exactly when the delivered
\* isPlaying differs from the local play flag, leaves the play flag equal to
\* the delivered isPlaying, and seeks exactly when the player's position is
\* further than the threshold from the delivered currentTime.
C21_Reconcile ==
    [][(/\ ev'.op = "handleVideoStateChange"
        /\ Applied(ev')
        /\ player # Null
        /\ playerRef = "current"
        /\ The(player).videoId = ev'.video)
           => /\ (ev'.cmd # "none") <=> (IsPlayingOf(videoState') # localIsPlaying)
              /\ localIsPlaying' = IsPlayingOf(videoState')
              /\ (ev'.seek # Null)
                     <=> seekNeeded(The(player).time, The(videoState'))]_vars

\* C22: the handler of a BUFFERING notification sets isBuffering and nothing
\* else: it writes nothing and leaves videoState, lastSyncTimeRef, the play
\* flag, the sync interval and the player as they were.
C22_BufferingLocal ==
    [][(ev'.op = "onPlayerStateChange" /\ ev'.outcome = "buffering")
           => /\ isBuffering'
              /\ ~ev'.published
              /\ ev'.toast = {}
              /\ UNCHANGED <<videoState, lastSyncTimeRef, inflight, localIsPlaying,
                             isLoading, intervals, syncIntervalRef, player,
                             playlist, currentVideoPosition>>]_vars

\* A BUFFERING notification has been handled while the player buffers.
C22_Buffered ==
    /\ ev.op = "onPlayerStateChange"
    /\ ev.outcome = "buffering"
    /\ isBuffering
    /\ videoState # Null
    /\ player # Null
    /\ The(player).status = "buffering"

\* C23: a sync interval runs only while the player is playing: in every
\* state with a running interval the widget is on screen and its status is
\* "playing", or a notification of its change of status is still to be
\* handled.
C23_TimerOnlyWhilePlaying ==
    intervals # {}
        => /\ player # Null
           /\ The(player).status = "playing" \/ notices # <<>>

\* C24: when an ENDED notification is handled while the playlist is not
\* empty, the widget holds the video playNextVideo chose and that video is
\* playing, or its start is pending (the widget has yet to report ready, or
\* the ready timeout has yet to fire).
C24_EndedTransient ==
    [][(/\ ev'.op = "onPlayerStateChange"
        /\ ev'.outcome = "ended"
        /\ Len(playlist) > 0)
           => /\ player' # Null
              /\ The(player').videoId = ev'.video
              /\ \/ The(player').status = "playing"
                 \/ ~The(player').ready
                 \/ readyTimeout' # Null]_vars

\* The state playNextVideo publishes from the render r at the clock's time.
AdvanceState(r) ==
    [videoId |-> nextVideo(r), isPlaying |-> TRUE, currentTime |-> 0,
     timestamp |-> now]

\* C25: an advance (the skip button or ENDED) on a non-empty playlist writes
\* the state with the chosen entry's video, isPlaying true and currentTime 0,
\* makes it the local videoState and records the clock in lastSyncTimeRef.
C25_AdvancePublished ==
    [][(Advanced(ev') /\ Len(playlist) > 0)
           => /\ ev'.published
              /\ ev'.video = nextVideo(Latest)
              /\ inflight' = Append(inflight, AdvanceState(Latest))
              /\ videoState' = Some(AdvanceState(Latest))
              /\ lastSyncTimeRef' = now]_vars

\* ENDED has been handled on a playlist of several entries and the state of
\* the next entry is the local videoState and is on its way to the room row.
C25_AdvancedOnEnded ==
    /\ ev.op = "onPlayerStateChange"
    /\ ev.outcome = "ended"
    /\ ev.published
    /\ Len(playlist) > 1
    /\ videoState = Some([videoId |-> ev.video, isPlaying |-> TRUE,
                          currentTime |-> 0, timestamp |-> now])
    /\ inflight # <<>>
    /\ inflight[Len(inflight)] = The(videoState)
    /\ lastSyncTimeRef = now
    /\ player # Null
    /\ The(player).status = "cued"

\* C26: when both participants, holding the same playlist and playing the
\* same video, have seen it end and every notification and delivery has been
\* handled, the row holds the entry after the video that ended: the room has
\* advanced by one entry, not by two.
RaceSuccessor(peer) ==
    peer.playlist[((findIndex(peer.playlist, peer.ended) + 1) % Len(peer.playlist)) + 1]

RaceSettled ==
    \A p \in DOMAIN peers :
        /\ Truthy(peers[p].ended)
        /\ peers[p].notices = <<>>
        /\ peers[p].inbox = <<>>

C26_SingleAdvance ==
    (peers # <<>> /\ RaceSettled)
        => \A p \in DOMAIN peers : The(store).videoId = RaceSuccessor(peers[p])

\* C27: once this participant has published, a delivery handled less than the
\* window (1000 ms) after that publish is discarded whatever it carries, a
\* state written by another participant for another video, play flag or
\* playhead included: the handler changes no state, touches neither the
\* player nor the timers, writes nothing and shows nothing.
C27_WindowTotal ==
    [][(/\ ev'.op = "handleVideoStateChange"
        /\ lastSyncTimeRef >= StartMs
        /\ now - lastSyncTimeRef < SuppressWindowMs)
           => /\ ev'.outcome = "suppressed"
              /\ ev'.cmd = "none"
              /\ ev'.seek = Null
              /\ ev'.toast = {}
              /\ ~ev'.published
              /\ UNCHANGED <<videoState, localIsPlaying, isBuffering, playlist,
                             currentVideoPosition, lastSyncTimeRef, syncIntervalRef,
                             intervals, readyTimeout, player, notices, inflight,
                             store>>]_vars

\* A delivery for another video than the one this participant has just
\* published was discarded.
C27_ForeignDiscarded ==
    /\ ev.op = "handleVideoStateChange"
    /\ ev.outcome = "suppressed"
    /\ lastSyncTimeRef >= StartMs
    /\ now - lastSyncTimeRef < SuppressWindowMs
    /\ videoState # Null
    /\ Truthy(ev.video)
    /\ ev.video # The(videoState).videoId
    /\ The(videoState).timestamp = lastSyncTimeRef

\* C28: whatever handler writes (play or pause, the sync interval, a
\* selection, a skip, the advance after ENDED), the state it writes names no
\* video or a video of the playlist the component holds at that moment,
\* whenever that playlist is not empty.
C28_WritesGuarded ==
    [][(Len(inflight') > Len(inflight) /\ Len(playlist) > 0)
           => LET written == inflight'[Len(inflight')]
              IN  Truthy(written.videoId) => isInPlaylist(written.videoId, playlist)]_vars

\* The check of onPlayerReady on the render it runs in: a videoState exists
\* and its video is in the playlist, or the playlist is empty.
ReadyGuard(r) ==
    /\ r.videoState # Null
    /\ isInPlaylist(The(r.videoState).videoId, r.playlist) \/ Len(r.playlist) = 0

\* The position the ready callback seeks to for a stored state.
AdjustedTime(s) ==
    IF s.isPlaying THEN s.currentTime + ReadyCompensation ELSE s.currentTime

\* C29: onPlayerReady itself issues no seek and no play; it schedules the
\* alignment exactly when a videoState exists that passes the playlist check,
\* for that videoState.  The scheduled alignment seeks to the stored playhead
\* plus one second when the stored state is playing and to the stored
\* playhead itself when it is paused, and calls playVideo exactly when the
\* stored state is playing; the widget, when it is the one on screen, then
\* stands at that position, playing in the first case.
C29_ReadyAlignment ==
    [][/\ (ev'.op = "onPlayerReady")
            => /\ ev'.seek = Null
               /\ ev'.cmd = "none"
               /\ (readyTimeout' # Null) <=> ReadyGuard(Latest)
               /\ (readyTimeout' # Null)
                      => The(readyTimeout').videoState = The(videoState)
       /\ (ev'.op = "readyTimeout")
            => LET captured == The(readyTimeout).videoState
               IN  /\ ev'.seek = Some(AdjustedTime(captured))
                   /\ (ev'.cmd = "play") <=> captured.isPlaying
                   /\ ev'.cmd \in {"none", "play"}
                   /\ (playerRef = "current" /\ player' # Null)
                          => /\ The(player').time = AdjustedTime(captured)
                             /\ captured.isPlaying
                                    => The(player').status = "playing"]_vars

\* The alignment ran for a stored state that is playing: the player was moved
\* one second past the stored playhead and started.
C29_JoinedPlaying ==
    /\ ev.op = "readyTimeout"
    /\ ev.seek = Some(LocalElapsed + ReadyCompensation)
    /\ ev.cmd = "play"
    /\ player # Null
    /\ The(player).status = "playing"
    /\ The(player).time = LocalElapsed + ReadyCompensation

\* C30: whenever the client has no operation under way on the room's
\* playlist, the positions of the stored rows are 0..n-1 for the n rows, each
\* taken once.
C30_PositionsDense ==
    (panel # <<>> /\ PanelIdle)
        => /\ {r.position : r \in panel.rows} = 0..(Cardinality(panel.rows) - 1)
           /\ \A r1, r2 \in panel.rows : r1.position = r2.position => r1 = r2

\* C31: with two clients adding to the same playlist, no two rows ever have
\* the same position, however the selects and inserts of the two interleave.
C31_DistinctPositions ==
    ("reading" \in DOMAIN panel)
        => \A r1, r2 \in panel.rows : r1.position = r2.position => r1 = r2

\* Both participants hold the video and the play flag of the row.
RaceAgree ==
    \A p \in DOMAIN peers :
        /\ peers[p].videoState # Null
        /\ The(peers[p].videoState).videoId = The(store).videoId
        /\ The(peers[p].videoState).isPlaying = The(store).isPlaying

\* The widget of some participant is playing.
RaceSomePlaying ==
    \E p \in DOMAIN peers :
        /\ peers[p].player # Null
        /\ The(peers[p].player).status = "playing"

\* C32: in a behaviour in which, from some point on, a participant's widget
\* is always playing, the two participants and the row agree on the video and
\* the play flag from some point on.
C32_Converges == (<>[]RaceSomePlaying) => <>[]RaceAgree

\* The same with agreement only required again and again.
C32_AgreesAgain == (<>[]RaceSomePlaying) => []<>RaceAgree

\* C33: the state a tick of the sync interval writes has the videoId and the
\* isPlaying of the videoState the component holds when the tick comes, the
\* player's position of that moment as currentTime and the clock as
\* timestamp.
C33_TickWritesCurrent ==
    [][(ev'.op = "syncInterval" /\ Len(inflight') > Len(inflight))
           => LET written == inflight'[Len(inflight')]
              IN  /\ videoState # Null
                  /\ written.videoId = The(videoState).videoId
                  /\ written.isPlaying = The(videoState).isPlaying
                  /\ written.timestamp = now
                  /\ playerRef = "current" => written.currentTime = The(player).time]_vars

\* C34: in every state at most one sync interval is set, and it is the one
\* syncIntervalRef records.
C34_OneTimer ==
    /\ Cardinality(intervals) <= 1
    /\ \A i \in intervals : syncIntervalRef = Some(i.id)

\* A PLAYING notification was handled while a timer was set: the timer now
\* set is a new one and the earlier one is gone.
C34_TimerReplaced ==
    /\ ev.op = "onPlayerStateChange"
    /\ ev.outcome = "playing"
    /\ Cardinality(intervals) = 1
    /\ \A i \in intervals : i.id > 1

\* C35: once every write the participant has started has been applied, and no
\* one else writes, the row holds the participant's local videoState.
C35_LastWriteStored ==
    (DOMAIN peers = {Writer} /\ peers[Writer].inflight = <<>>)
        => store = peers[Writer].videoState

\* C36: after every render, currentVideoPosition is null when the videoState
\* names no video, the playlist is empty or the video is not in the playlist;
\* otherwise it is an index of the playlist, counted from 0, and the entry at
\* that index is the video of the videoState.
C36_PositionConsistent ==
    IF \/ ~Truthy(VideoIdOf(videoState))
       \/ Len(playlist) = 0
       \/ Absent(VideoIdOf(videoState), playlist)
    THEN currentVideoPosition = NoPosition
    ELSE /\ currentVideoPosition \in 0..(Len(playlist) - 1)
         /\ playlist[currentVideoPosition + 1] = VideoIdOf(videoState)

\* A refresh of the playlist has moved the current video to a later index.
C36_MovedByRefresh ==
    /\ ev.op = "fetchRoomPlaylist"
    /\ Len(playlist) > 1
    /\ currentVideoPosition = Len(playlist) - 1
    /\ playlist[Len(playlist)] = VideoIdOf(videoState)

\* C37: when fetchInitialState returns a stored state whose video is not in
\* the component's non-empty playlist, the component's videoState becomes the
\* first entry of the playlist, playing from 0, and that state is written.
C37_FallbackToFirst ==
    [][(/\ ev'.op = "fetchInitialState"
        /\ store # Null
        /\ Truthy(The(store).videoId)
        /\ Len(playlist) > 0
        /\ Absent(The(store).videoId, playlist))
           => /\ videoState' = Some([videoId |-> playlist[1], isPlaying |-> TRUE,
                                     currentTime |-> 0, timestamp |-> now])
              /\ inflight' = Append(inflight, The(videoState'))]_vars

\* The ids of a list of entries, in order.
IdsOf(items) == [i \in 1..Len(items) |-> items[i].id]

\* C38: when the second update of a move has been applied, and the panel's
\* list is the one the move produced (the displaced entry stands at the index
\* the update writes) and holds exactly the rows of the table, every fetch of
\* the table ordered by position returns the entries in the order of the
\* panel's list.
C38_RefetchAgrees ==
    [][(/\ panel # <<>>
        /\ "updates" \in DOMAIN panel
        /\ panel.updates # <<>>
        /\ panel'.updates = <<>>
        /\ ~panel'.fetching
        /\ Head(panel.updates).position < Len(panel.playlistItems)
        /\ panel.playlistItems[Head(panel.updates).position + 1].id
               = Head(panel.updates).id
        /\ {panel'.playlistItems[i].id : i \in 1..Len(panel'.playlistItems)}
               = {r.id : r \in panel'.rows})
           => \A s \in Ordered(panel'.rows) : IdsOf(s) = IdsOf(panel'.playlistItems)]_vars

\* C39: the target user playlist never holds two rows with the same video_id,
\* at any point of any number of saves of the room playlist, concurrent ones
\* included.
C39_NoDuplicateVideo ==
    (panel # <<>> /\ "saver" \in DOMAIN panel)
        => \A r, q \in panel.rows : r.video_id = q.video_id => r.id = q.id

====
